---- MODULE Spec2Model ----
(***************************************************************************)
(* Model of the Coolify MCP server (src/src/index.ts): the tool registry   *)
(* answered by the list-tools handler, the call-tool handler's dispatch    *)
(* switch with its zod validation, and the coolifyApiCall helper with the  *)
(* two suspension points of an invocation (the fetch and the reading of    *)
(* the response body).                                                     *)
(*                                                                         *)
(* Representation.  A JavaScript value is a record [t, s, n, b, f]: t is   *)
(* its type, s the text of a string as a sequence of chunks (a chunk is a  *)
(* run of ordinary characters or one reserved character), n a number, b a  *)
(* boolean, f the members of an object or array in insertion order.  JSON  *)
(* text is a sequence of tokens [k, c]; whitespace is a token of its own,  *)
(* so pretty-printing and parsing are real conversions.  Text handed to    *)
(* fetch as a URL, and header values, are TLA+ strings.                    *)
(***************************************************************************)
EXTENDS Integers, Sequences, FiniteSets, TLC

VARIABLES env, listing, inv, nCalls, nHttp, nAccepted

vars == <<env, listing, inv, nCalls, nHttp, nAccepted>>

\* Invocations delivered by the protocol runtime in one run.
MaxCalls == 3
\* Invocations the protocol runtime has in flight at once (SpecConc).
MaxInFlight == 2

-----------------------------------------------------------------------------
(* JavaScript values *)

Undefined == [t |-> "undefined", s |-> <<>>, n |-> 0, b |-> FALSE, f |-> <<>>]
Null == [t |-> "null", s |-> <<>>, n |-> 0, b |-> FALSE, f |-> <<>>]
Str(chunks) == [t |-> "string", s |-> chunks, n |-> 0, b |-> FALSE, f |-> <<>>]
Num(k) == [t |-> "number", s |-> <<>>, n |-> k, b |-> FALSE, f |-> <<>>]
Bool(x) == [t |-> "boolean", s |-> <<>>, n |-> 0, b |-> x, f |-> <<>>]
Obj(members) == [t |-> "object", s |-> <<>>, n |-> 0, b |-> FALSE, f |-> members]
Arr(items) ==
  [t |-> "array", s |-> <<>>, n |-> 0, b |-> FALSE,
   f |-> [i \in 1..Len(items) |-> [k |-> "", v |-> items[i]]]]
Member(key, value) == [k |-> key, v |-> value]

HasKey(o, key) == \E i \in 1..Len(o.f) : o.f[i].k = key

\* o[key]: the member's value, undefined when o has no such member.
Get(o, key) ==
  IF o.t = "object" /\ HasKey(o, key)
  THEN o.f[CHOOSE i \in 1..Len(o.f) : o.f[i].k = key].v
  ELSE Undefined

RECURSIVE JoinChunks(_)
JoinChunks(chunks) ==
  IF chunks = <<>> THEN "" ELSE Head(chunks) \o JoinChunks(Tail(chunks))

\* JavaScript truthiness, as `if (x)` and `x ? a : b` test it.
Truthy(v) ==
  CASE v.t = "undefined" -> FALSE
    [] v.t = "null" -> FALSE
    [] v.t = "string" -> v.s # <<>>
    [] v.t = "number" -> v.n # 0
    [] v.t = "boolean" -> v.b
    [] OTHER -> TRUE

\* The text a template literal `${v}` inserts.
TemplateText(v) ==
  CASE v.t = "undefined" -> "undefined"
    [] v.t = "null" -> "null"
    [] v.t = "string" -> JoinChunks(v.s)
    [] v.t = "number" -> ToString(v.n)
    [] v.t = "boolean" -> (IF v.b THEN "true" ELSE "false")
    [] v.t = "object" -> "[object Object]"
    [] OTHER -> ""

-----------------------------------------------------------------------------
(* JSON text: JSON.stringify and JSON.parse / response.json() *)

Tok(kind, chunks) == [k |-> kind, c |-> chunks]
Punct(p) == Tok("punct", <<p>>)
Ws(w) == Tok("ws", <<w>>)
Text(x) == Tok("text", <<x>>)

\* Inside a JSON string a quote and a backslash are written with a backslash.
EscapeChunk(c) ==
  CASE c = "\"" -> "\\\""
    [] c = "\\" -> "\\\\"
    [] OTHER -> c

UnescapeChunk(c) ==
  CASE c = "\\\"" -> "\""
    [] c = "\\\\" -> "\\"
    [] OTHER -> c

StringTok(chunks) ==
  Tok("string", [i \in 1..Len(chunks) |-> EscapeChunk(chunks[i])])

Indentation(indent, level) ==
  IF indent = 0 THEN <<>>
  ELSE <<Ws("\n")>> \o [i \in 1..(indent * level) |-> Ws(" ")]

\* JSON.stringify omits the members of an object whose value is undefined.
Defined(members) == SelectSeq(members, LAMBDA m : m.v.t # "undefined")

RECURSIVE Stringify(_, _, _)
RECURSIVE StringifyMembers(_, _, _, _)

\* JSON.stringify(v, null, indent), for the text nested `level` deep.
Stringify(v, indent, level) ==
  CASE v.t = "null" -> <<Tok("literal", <<"null">>)>>
    [] v.t = "undefined" -> <<Tok("literal", <<"null">>)>>
    [] v.t = "boolean" -> <<Tok("literal", <<IF v.b THEN "true" ELSE "false">>)>>
    [] v.t = "number" -> <<Tok("number", <<ToString(v.n)>>)>>
    [] v.t = "string" -> <<StringTok(v.s)>>
    [] v.t = "object" ->
         IF Defined(v.f) = <<>> THEN <<Punct("{"), Punct("}")>>
         ELSE <<Punct("{")>>
              \o StringifyMembers(Defined(v.f), TRUE, indent, level + 1)
              \o Indentation(indent, level) \o <<Punct("}")>>
    [] OTHER ->
         IF v.f = <<>> THEN <<Punct("["), Punct("]")>>
         ELSE <<Punct("[")>>
              \o StringifyMembers(v.f, FALSE, indent, level + 1)
              \o Indentation(indent, level) \o <<Punct("]")>>

StringifyMembers(members, keyed, indent, level) ==
  IF members = <<>> THEN <<>>
  ELSE Indentation(indent, level)
       \o (IF keyed
           THEN <<StringTok(<<Head(members).k>>), Punct(":")>>
                \o (IF indent = 0 THEN <<>> ELSE <<Ws(" ")>>)
           ELSE <<>>)
       \o Stringify(Head(members).v, indent, level)
       \o (IF Tail(members) = <<>> THEN <<>> ELSE <<Punct(",")>>)
       \o StringifyMembers(Tail(members), keyed, indent, level)

\* The number a decimal literal of the text denotes.
DecimalValue(lexeme) ==
  IF \E k \in 0..599 : ToString(k) = lexeme
  THEN CHOOSE k \in 0..599 : ToString(k) = lexeme
  ELSE 0

Failed == [ok |-> FALSE, v |-> Undefined, pos |-> 0]
Parsed(value, next) == [ok |-> TRUE, v |-> value, pos |-> next]

RECURSIVE ParseValue(_, _)
RECURSIVE ParseMembers(_, _, _)
RECURSIVE ParseElements(_, _, _)

\* The value that starts at token pos, and the position after it.
ParseValue(toks, pos) ==
  IF pos > Len(toks) THEN Failed
  ELSE LET tk == toks[pos] IN
    CASE tk.k = "literal" ->
           Parsed(CASE tk.c = <<"null">> -> Null
                    [] tk.c = <<"true">> -> Bool(TRUE)
                    [] OTHER -> Bool(FALSE), pos + 1)
      [] tk.k = "number" -> Parsed(Num(DecimalValue(tk.c[1])), pos + 1)
      [] tk.k = "string" ->
           Parsed(Str([i \in 1..Len(tk.c) |-> UnescapeChunk(tk.c[i])]), pos + 1)
      [] tk = Punct("{") ->
           IF pos + 1 <= Len(toks) /\ toks[pos + 1] = Punct("}")
           THEN Parsed(Obj(<<>>), pos + 2)
           ELSE ParseMembers(toks, pos + 1, <<>>)
      [] tk = Punct("[") ->
           IF pos + 1 <= Len(toks) /\ toks[pos + 1] = Punct("]")
           THEN Parsed(Arr(<<>>), pos + 2)
           ELSE ParseElements(toks, pos + 1, <<>>)
      [] OTHER -> Failed

\* The members of an object from token pos on: "key" : value , ... }
\* A key that comes twice keeps its first place and its last value.
ParseMembers(toks, pos, acc) ==
  IF pos + 1 > Len(toks) \/ toks[pos].k # "string" \/ toks[pos + 1] # Punct(":")
  THEN Failed
  ELSE LET key == JoinChunks([i \in 1..Len(toks[pos].c) |->
                                UnescapeChunk(toks[pos].c[i])])
           r == ParseValue(toks, pos + 2)
       IN IF ~r.ok \/ r.pos > Len(toks) THEN Failed
          ELSE LET now == IF \E i \in 1..Len(acc) : acc[i].k = key
                          THEN [i \in 1..Len(acc) |->
                                  IF acc[i].k = key THEN Member(key, r.v) ELSE acc[i]]
                          ELSE Append(acc, Member(key, r.v))
               IN CASE toks[r.pos] = Punct("}") -> Parsed(Obj(now), r.pos + 1)
                    [] toks[r.pos] = Punct(",") -> ParseMembers(toks, r.pos + 1, now)
                    [] OTHER -> Failed

\* The elements of an array from token pos on: value , ... ]
ParseElements(toks, pos, acc) ==
  LET r == ParseValue(toks, pos) IN
  IF ~r.ok \/ r.pos > Len(toks) THEN Failed
  ELSE CASE toks[r.pos] = Punct("]") -> Parsed(Arr(Append(acc, r.v)), r.pos + 1)
         [] toks[r.pos] = Punct(",") -> ParseElements(toks, r.pos + 1, Append(acc, r.v))
         [] OTHER -> Failed

\* JSON.parse of a text: whitespace between tokens is skipped, and the text
\* must be one value and nothing more.
ParseJSON(text) ==
  LET toks == SelectSeq(text, LAMBDA tk : tk.k # "ws")
      r == ParseValue(toks, 1)
  IN IF r.ok /\ r.pos = Len(toks) + 1
     THEN [ok |-> TRUE, v |-> r.v]
     ELSE [ok |-> FALSE, v |-> Undefined]

-----------------------------------------------------------------------------
(* zod schemas *)

\* One key of a z.object shape: its type, .optional(), .nullable(), the
\* values of a z.enum, the shape of a nested z.object.
Field(key, type) ==
  [key |-> key, type |-> type, optional |-> FALSE, nullable |-> FALSE,
   values |-> <<>>, shape |-> <<>>]
Optional(fld) == [fld EXCEPT !.optional = TRUE]
Nullable(fld) == [fld EXCEPT !.nullable = TRUE]
Enum(key, options) == [Field(key, "enum") EXCEPT !.values = options]
Nested(key, shape) == [Field(key, "object") EXCEPT !.shape = shape]

EmptySchema == <<>>

UuidSchema == <<Field("uuid", "string")>>

DeploySchema ==
  <<Optional(Field("tag", "string")),
    Optional(Field("uuid", "string")),
    Optional(Field("force", "boolean"))>>

ApplicationUpdateSchema ==
  <<Optional(Field("health_check_enabled", "boolean")),
    Optional(Field("health_check_path", "string")),
    Optional(Nullable(Field("health_check_port", "string"))),
    Optional(Nullable(Field("health_check_host", "string"))),
    Optional(Field("health_check_method", "string")),
    Optional(Field("health_check_return_code", "number")),
    Optional(Field("health_check_scheme", "string")),
    Optional(Nullable(Field("health_check_response_text", "string"))),
    Optional(Field("health_check_interval", "number")),
    Optional(Field("health_check_timeout", "number")),
    Optional(Field("health_check_retries", "number")),
    Optional(Field("health_check_start_period", "number")),
    Optional(Field("name", "string")),
    Optional(Field("description", "string")),
    Optional(Field("domains", "string"))>>

UpdateApplicationSchema ==
  <<Field("uuid", "string"), Nested("settings", ApplicationUpdateSchema)>>

GetLogsSchema ==
  <<Field("uuid", "string"),
    Enum("type", <<"application", "deployment">>),
    Optional(Field("lines", "number"))>>

\* A ZodIssue, as error.errors lists it.
InvalidType(expected, v, path) ==
  Obj(<<Member("code", Str(<<"invalid_type">>)),
        Member("expected", Str(<<expected>>)),
        Member("received", Str(<<v.t>>)),
        Member("path", Arr([i \in 1..Len(path) |-> Str(<<path[i]>>)])),
        Member("message",
               Str(<<IF v.t = "undefined" THEN "Required"
                     ELSE "Expected " \o expected \o ", received " \o v.t>>))>>)

RECURSIVE JoinOptions(_)
JoinOptions(options) ==
  IF Len(options) = 1 THEN "'" \o options[1] \o "'"
  ELSE "'" \o Head(options) \o "' | " \o JoinOptions(Tail(options))

InvalidEnumValue(options, v, path) ==
  Obj(<<Member("received", v),
        Member("code", Str(<<"invalid_enum_value">>)),
        Member("options", Arr([i \in 1..Len(options) |-> Str(<<options[i]>>)])),
        Member("path", Arr([i \in 1..Len(path) |-> Str(<<path[i]>>)])),
        Member("message",
               Str(<<"Invalid enum value. Expected " \o JoinOptions(options)
                     \o ", received '" \o JoinChunks(v.s) \o "'">>))>>)

RECURSIVE ZodObject(_, _, _)
RECURSIVE ZodFields(_, _, _)

\* The issues z.object(shape).safeParse(value) reports, none when it accepts;
\* keys the shape does not name are stripped, not reported.
ZodObject(shape, value, path) ==
  IF value.t # "object" THEN <<InvalidType("object", value, path)>>
  ELSE ZodFields(shape, value, path)

ZodFields(shape, value, path) ==
  IF shape = <<>> THEN <<>>
  ELSE LET fld == Head(shape)
           v == Get(value, fld.key)
           at == Append(path, fld.key)
           here ==
             CASE v.t = "undefined" /\ fld.optional -> <<>>
               [] v.t = "null" /\ fld.nullable -> <<>>
               [] fld.type = "object" -> ZodObject(fld.shape, v, at)
               [] fld.type = "enum" ->
                    IF v.t # "string"
                    THEN <<InvalidType(JoinOptions(fld.values), v, at)>>
                    ELSE IF \E i \in 1..Len(fld.values) : fld.values[i] = JoinChunks(v.s)
                         THEN <<>>
                         ELSE <<InvalidEnumValue(fld.values, v, at)>>
               [] OTHER ->
                    IF v.t = fld.type THEN <<>>
                    ELSE <<InvalidType(fld.type, v, at)>>
       IN here \o ZodFields(Tail(shape), value, path)

-----------------------------------------------------------------------------
(* The tool registry: the list-tools handler *)

Tool(name, schema) == [name |-> name, inputSchema |-> schema]

\* A list that leaves out the tool added last.
ToolsWithoutGetLogs ==
  <<Tool("list-resources", EmptySchema),
    Tool("list-applications", EmptySchema),
    Tool("get-application", UuidSchema),
    Tool("start-application", UuidSchema),
    Tool("stop-application", UuidSchema),
    Tool("restart-application", UuidSchema),
    Tool("list-services", EmptySchema),
    Tool("list-databases", EmptySchema),
    Tool("list-deployments", EmptySchema),
    Tool("deploy", DeploySchema),
    Tool("update-application", UpdateApplicationSchema)>>

\* The tools the list-tools handler returns, in order (descriptions left out).
Tools ==
  <<Tool("list-resources", EmptySchema),
    Tool("list-applications", EmptySchema),
    Tool("get-application", UuidSchema),
    Tool("start-application", UuidSchema),
    Tool("stop-application", UuidSchema),
    Tool("restart-application", UuidSchema),
    Tool("list-services", EmptySchema),
    Tool("list-databases", EmptySchema),
    Tool("list-deployments", EmptySchema),
    Tool("deploy", DeploySchema),
    Tool("update-application", UpdateApplicationSchema),
    Tool("get-logs", GetLogsSchema)>>

ToolNames(tools) == {tools[i].name : i \in 1..Len(tools)}

\* The input schema list-tools advertises for a tool.
AdvertisedSchema(name) ==
  Tools[CHOOSE i \in 1..Len(Tools) : Tools[i].name = name].inputSchema

\* Whether the arguments satisfy the schema list-tools advertises for the tool.
SchemaAccepts(name, args) == ZodObject(AdvertisedSchema(name), args, <<>>) = <<>>

-----------------------------------------------------------------------------
(* Errors and the outcome of the synchronous part of an invocation *)

NoError == [cls |-> "", message |-> <<>>, issues |-> Arr(<<>>)]
Error(message) == [cls |-> "Error", message |-> message, issues |-> Arr(<<>>)]
ZodError(issues) == [cls |-> "ZodError", message |-> <<>>, issues |-> Arr(issues)]

\* What a switch branch does before it first suspends: it throws, or it
\* calls coolifyApiCall(endpoint, method, body).
ThrowPlan(error) ==
  [kind |-> "throw", endpoint |-> "", method |-> "", body |-> Undefined,
   error |-> error]
FetchPlan(endpoint, method, body) ==
  [kind |-> "fetch", endpoint |-> endpoint, method |-> method, body |-> body,
   error |-> NoError]

\* A branch without arguments: one GET of a fixed path.
ListBranch(endpoint) == FetchPlan(endpoint, "GET", Undefined)

\* get-application, start-application, stop-application, restart-application.
UuidBranch(args, suffix) ==
  LET issues == ZodObject(UuidSchema, args, <<>>) IN
  IF issues # <<>> THEN ThrowPlan(ZodError(issues))
  ELSE FetchPlan("/applications/" \o TemplateText(Get(args, "uuid")) \o suffix,
                 "GET", Undefined)

\* update-application: the arguments are cast, not parsed.
UpdateApplication(args) ==
  FetchPlan("/applications/" \o TemplateText(Get(args, "uuid")),
            "PATCH", Get(args, "settings"))

\* The form-urlencoded serializer of URLSearchParams.toString().
EncodeChunk(c) ==
  CASE c = "," -> "%2C"
    [] c = " " -> "+"
    [] c = "&" -> "%26"
    [] c = "=" -> "%3D"
    [] c = "/" -> "%2F"
    [] OTHER -> c

UrlEncode(chunks) == JoinChunks([i \in 1..Len(chunks) |-> EncodeChunk(chunks[i])])

RECURSIVE SearchParamsToString(_)
SearchParamsToString(pairs) ==
  IF pairs = <<>> THEN ""
  ELSE Head(pairs)[1] \o "=" \o Head(pairs)[2]
       \o (IF Tail(pairs) = <<>> THEN "" ELSE "&")
       \o SearchParamsToString(Tail(pairs))

\* A query that tests force for being defined instead of true.
DeployQueryForceDefined(params) ==
  (IF Truthy(Get(params, "tag"))
   THEN <<<<"tag", UrlEncode(Get(params, "tag").s)>>>> ELSE <<>>)
  \o (IF Truthy(Get(params, "uuid"))
      THEN <<<<"uuid", UrlEncode(Get(params, "uuid").s)>>>> ELSE <<>>)
  \o (IF Get(params, "force").t # "undefined" THEN <<<<"force", "true">>>> ELSE <<>>)

\* The URLSearchParams the deploy branch fills.
DeployQuery(params) ==
  (IF Truthy(Get(params, "tag"))
   THEN <<<<"tag", UrlEncode(Get(params, "tag").s)>>>> ELSE <<>>)
  \o (IF Truthy(Get(params, "uuid"))
      THEN <<<<"uuid", UrlEncode(Get(params, "uuid").s)>>>> ELSE <<>>)
  \o (IF Truthy(Get(params, "force")) THEN <<<<"force", "true">>>> ELSE <<>>)

Deploy(args) ==
  LET issues == ZodObject(DeploySchema, args, <<>>) IN
  IF issues # <<>> THEN ThrowPlan(ZodError(issues))
  ELSE FetchPlan("/deploy?" \o SearchParamsToString(DeployQuery(args)),
                 "GET", Undefined)

\* The default of the destructuring `lines = 100`.
DefaultLines == 100

\* A get-logs that passes lines to the deployment endpoint too.
GetLogsLinesEverywhere(args) ==
  LET uuid == Get(args, "uuid")
      type == Get(args, "type")
      lines == IF Get(args, "lines").t = "undefined" THEN Num(DefaultLines)
               ELSE Get(args, "lines")
  IN CASE type = Str(<<"application">>) ->
            FetchPlan("/applications/" \o TemplateText(uuid) \o "/logs?lines="
                      \o TemplateText(lines), "GET", Undefined)
       [] type = Str(<<"deployment">>) ->
            FetchPlan("/deployments/" \o TemplateText(uuid) \o "?lines="
                      \o TemplateText(lines), "GET", Undefined)
       [] OTHER ->
            ThrowPlan(Error(<<Text("Invalid log type: " \o TemplateText(type))>>))

\* get-logs: the arguments are cast, not parsed.
GetLogs(args) ==
  LET uuid == Get(args, "uuid")
      type == Get(args, "type")
      lines == IF Get(args, "lines").t = "undefined" THEN Num(DefaultLines)
               ELSE Get(args, "lines")
  IN CASE type = Str(<<"application">>) ->
            FetchPlan("/applications/" \o TemplateText(uuid) \o "/logs?lines="
                      \o TemplateText(lines), "GET", Undefined)
       [] type = Str(<<"deployment">>) ->
            FetchPlan("/deployments/" \o TemplateText(uuid), "GET", Undefined)
       [] OTHER ->
            ThrowPlan(Error(<<Text("Invalid log type: " \o TemplateText(type))>>))

\* A default branch that serves the first listing instead of throwing.
DefaultBranchLists(name) == FetchPlan("/resources", "GET", Undefined)

\* The default branch of the switch.
DefaultBranch(name) == ThrowPlan(Error(<<Text("Unknown tool: " \o name)>>))

\* The switch of the call-tool handler.
Switch(name, args) ==
  CASE name = "list-resources" -> ListBranch("/resources")
    [] name = "list-applications" -> ListBranch("/applications")
    [] name = "get-application" -> UuidBranch(args, "")
    [] name = "start-application" -> UuidBranch(args, "/start")
    [] name = "stop-application" -> UuidBranch(args, "/stop")
    [] name = "update-application" -> UpdateApplication(args)
    [] name = "restart-application" -> UuidBranch(args, "/restart")
    [] name = "list-services" -> ListBranch("/services")
    [] name = "list-databases" -> ListBranch("/databases")
    [] name = "list-deployments" -> ListBranch("/deployments")
    [] name = "deploy" -> Deploy(args)
    [] name = "get-logs" -> GetLogs(args)
    [] OTHER -> DefaultBranch(name)

\* The catch clause of the handler: a ZodError is rethrown as an Error that
\* lists its issues, anything else is rethrown as it is.
Catch(error) ==
  IF error.cls = "ZodError"
  THEN Error(<<Text("Invalid input: ")>> \o Stringify(error.issues, 0, 0))
  ELSE error

-----------------------------------------------------------------------------
(* coolifyApiCall *)

DefaultBaseUrl == "https://coolify.stuartmason.co.uk"

\* process.env.COOLIFY_BASE_URL?.replace(/\/$/, '') || the default
BaseUrl(environment) ==
  LET raw == environment.COOLIFY_BASE_URL
      stripped == IF raw.s # <<>> /\ raw.s[Len(raw.s)] = "/"
                  THEN SubSeq(raw.s, 1, Len(raw.s) - 1) ELSE raw.s
  IN IF raw.t = "undefined" \/ stripped = <<>> THEN DefaultBaseUrl
     ELSE JoinChunks(stripped)

NoRequest ==
  [url |-> "", method |-> "", authorization |-> "", contentType |-> "",
   hasBody |-> FALSE, body |-> <<>>]

\* The request coolifyApiCall hands to fetch.
FetchRequest(environment, endpoint, method, body) ==
  [url |-> BaseUrl(environment) \o "/api/v1" \o endpoint,
   method |-> method,
   authorization |-> "Bearer " \o TemplateText(environment.COOLIFY_ACCESS_TOKEN),
   contentType |-> "application/json",
   hasBody |-> Truthy(body),
   body |-> IF Truthy(body) THEN Stringify(body, 0, 0) ELSE <<>>]

NoResponse == [status |-> 0, statusText |-> "", body |-> <<>>]

\* response.ok
Ok(response) == response.status >= 200 /\ response.status <= 299

SyntaxError ==
  [cls |-> "SyntaxError", message |-> <<Text("Unexpected token in JSON")>>,
   issues |-> Arr(<<>>)]

\* A coolifyApiCall whose response.json() of an error body has no catch.
ApiResultWithoutCatch(response) ==
  LET parsed == ParseJSON(response.body) IN
  IF ~parsed.ok THEN [ok |-> FALSE, value |-> Undefined, error |-> SyntaxError]
  ELSE IF ~Ok(response)
       THEN [ok |-> FALSE, value |-> Undefined,
             error |-> Error(Stringify(
               Obj(<<Member("error",
                            Str(<<"Coolify API error: " \o ToString(response.status)
                                  \o " " \o response.statusText>>)),
                     Member("status", Num(response.status)),
                     Member("details", parsed.v)>>),
               0, 0))]
       ELSE [ok |-> TRUE, value |-> parsed.v, error |-> NoError]

\* What coolifyApiCall does with the response once its body has been read:
\* it returns the parsed body, or throws.
ApiResult(response) ==
  LET parsed == ParseJSON(response.body) IN
  IF ~Ok(response)
  THEN [ok |-> FALSE, value |-> Undefined,
        error |-> Error(Stringify(
          Obj(<<Member("error",
                       Str(<<"Coolify API error: " \o ToString(response.status)
                             \o " " \o response.statusText>>)),
                Member("status", Num(response.status)),
                Member("details", IF parsed.ok THEN parsed.v ELSE Obj(<<>>))>>),
          0, 0))]
  ELSE IF parsed.ok
       THEN [ok |-> TRUE, value |-> parsed.v, error |-> NoError]
       ELSE [ok |-> FALSE, value |-> Undefined,
             error |-> SyntaxError]

-----------------------------------------------------------------------------
(* The result of an invocation *)

NoResult == [status |-> "pending", content |-> <<>>, error |-> NoError]

\* return { content: [{ type: "text", text: JSON.stringify(value, null, 2) }] }
Success(value) ==
  [status |-> "success",
   content |-> <<[type |-> "text", text |-> Stringify(value, 2, 0)]>>,
   error |-> NoError]

\* The handler throws: the invocation fails with the error the catch clause
\* rethrows.
Failure(error) ==
  [status |-> "failure", content |-> <<>>, error |-> Catch(error)]

-----------------------------------------------------------------------------
(* State and actions *)

Slots == 1..MaxInFlight

Idle ==
  [pc |-> "idle", name |-> "", args |-> Undefined, fetches |-> 0,
   req |-> NoRequest, resp |-> NoResponse, result |-> NoResult]

\* The list-tools handler.
ListTools ==
  /\ listing' = Tools
  /\ UNCHANGED <<env, inv, nCalls, nHttp, nAccepted>>

\* The call-tool handler up to its first suspension: the switch runs, and
\* either the handler throws or coolifyApiCall has called fetch.
CallTool(i, name, args) ==
  /\ inv[i].pc = "idle"
  /\ nCalls < MaxCalls
  /\ LET plan == Switch(name, args) IN
       /\ inv' = [inv EXCEPT ![i] =
            IF plan.kind = "fetch"
            THEN [Idle EXCEPT !.pc = "fetching", !.name = name, !.args = args,
                              !.fetches = 1,
                              !.req = FetchRequest(env, plan.endpoint,
                                                   plan.method, plan.body)]
            ELSE [Idle EXCEPT !.pc = "done", !.name = name, !.args = args,
                              !.result = Failure(plan.error)]]
       /\ nHttp' = nHttp + (IF plan.kind = "fetch" THEN 1 ELSE 0)
  /\ nCalls' = nCalls + 1
  /\ nAccepted' = nAccepted
       + (IF name \in ToolNames(Tools) /\ SchemaAccepts(name, args) THEN 1 ELSE 0)
  /\ UNCHANGED <<env, listing>>

\* fetch resolves: the remote API has answered with a status line.
FetchResolve(i, response) ==
  /\ inv[i].pc = "fetching"
  /\ inv' = [inv EXCEPT ![i].pc = "reading", ![i].resp = response]
  /\ UNCHANGED <<env, listing, nCalls, nHttp, nAccepted>>

\* fetch rejects (no connection): the rejection propagates to the caller.
FetchReject(i) ==
  /\ inv[i].pc = "fetching"
  /\ inv' = [inv EXCEPT ![i].pc = "done",
                        ![i].result =
                          Failure([cls |-> "TypeError",
                                   message |-> <<Text("fetch failed")>>,
                                   issues |-> Arr(<<>>)])]
  /\ UNCHANGED <<env, listing, nCalls, nHttp, nAccepted>>

\* A handler that keeps the response in a variable of the module, so that
\* an invocation reads the response another invocation stored last.
ReadBodyShared(i) ==
  /\ inv[i].pc = "reading"
  /\ LET j == CHOOSE j \in Slots :
                /\ inv[j].pc = "reading"
                /\ \A k \in Slots : inv[k].pc = "reading" => j <= k
         r == ApiResult(inv[j].resp)
     IN inv' = [inv EXCEPT ![i].pc = "done",
                           ![i].result = IF r.ok THEN Success(r.value)
                                         ELSE Failure(r.error)]
  /\ UNCHANGED <<env, listing, nCalls, nHttp, nAccepted>>

\* response.json() settles: coolifyApiCall returns or throws, and the handler
\* returns the content block or lets the error through its catch clause.
ReadBody(i) ==
  /\ inv[i].pc = "reading"
  /\ LET r == ApiResult(inv[i].resp) IN
       inv' = [inv EXCEPT ![i].pc = "done",
                          ![i].result = IF r.ok THEN Success(r.value)
                                        ELSE Failure(r.error)]
  /\ UNCHANGED <<env, listing, nCalls, nHttp, nAccepted>>

\* The protocol runtime sends the result to the client; nothing of the
\* invocation is kept.
Deliver(i) ==
  /\ inv[i].pc = "done"
  /\ inv' = [inv EXCEPT ![i] = Idle]
  /\ UNCHANGED <<env, listing, nCalls, nHttp, nAccepted>>

-----------------------------------------------------------------------------
(* Inputs.  The arguments of an invocation are an object: a client that has
   no argument to give sends the empty object. *)

U1 == Str(<<"u1">>)
Args(members) == Obj(Defined(members))

NoArgumentTools ==
  {"list-resources", "list-applications", "list-services", "list-databases",
   "list-deployments"}
UuidTools ==
  {"get-application", "start-application", "stop-application",
   "restart-application"}
\* Names the readme documents or a client may send, without a switch branch.
OtherNames == {"get-version", "health-check", "delete-everything"}

DeployArgs ==
  {Args(<<Member("tag", tag), Member("uuid", uuid), Member("force", force)>>) :
     tag \in {Undefined, Str(<<>>), Str(<<"v1", ",", "v2">>)},
     uuid \in {Undefined, U1},
     force \in {Undefined, Bool(TRUE), Bool(FALSE)}}
  \cup {Args(<<Member("tag", Num(7))>>)}

GetLogsArgs ==
  {Args(<<Member("uuid", uuid), Member("type", type), Member("lines", lines)>>) :
     uuid \in {Undefined, U1},
     type \in {Str(<<"application">>), Str(<<"deployment">>), Str(<<"other">>)},
     lines \in {Undefined, Num(0), Num(50), Str(<<"abc">>)}}

ValidSettings == Obj(<<Member("health_check_enabled", Bool(TRUE)),
                       Member("health_check_path", Str(<<"/", "up">>))>>)
IllTypedSettings == Obj(<<Member("health_check_enabled", Str(<<"yes">>))>>)

UpdateArgs ==
  {Args(<<Member("uuid", uuid), Member("settings", settings)>>) :
     uuid \in {Undefined, U1},
     settings \in {Undefined, ValidSettings, IllTypedSettings}}

Request(name, args) == [name |-> name, args |-> args]

Requests ==
  {Request(name, Args(<<>>)) : name \in NoArgumentTools \cup OtherNames}
  \cup {Request(name, args) :
          name \in UuidTools,
          args \in {Args(<<>>), Args(<<Member("uuid", U1)>>),
                    Args(<<Member("uuid", Num(42))>>)}}
  \cup {Request("deploy", args) : args \in DeployArgs}
  \cup {Request("get-logs", args) : args \in GetLogsArgs}
  \cup {Request("update-application", args) : args \in UpdateArgs}

\* Requests delivered concurrently: among them a start and a stop of the same
\* application, a request the schema rejects and an unregistered name.
ConcurrentRequests ==
  {Request("list-resources", Args(<<>>)),
   Request("start-application", Args(<<Member("uuid", U1)>>)),
   Request("stop-application", Args(<<Member("uuid", U1)>>)),
   Request("get-application", Args(<<>>)),
   Request("get-logs", Args(<<Member("uuid", U1),
                              Member("type", Str(<<"application">>))>>)),
   Request("delete-everything", Args(<<>>))}

\* Response bodies as the remote API writes them.
BodyId == <<Punct("{"), Tok("string", <<"id">>), Punct(":"),
            Tok("string", <<"abc">>), Punct("}")>>
BodyNotFound == <<Punct("{"), Ws(" "), Tok("string", <<"message">>), Punct(":"),
                  Ws(" "), Tok("string", <<"not found">>), Ws(" "), Punct("}")>>
BodyList == <<Punct("["), Punct("{"), Tok("string", <<"name">>), Punct(":"),
              Tok("string", <<"a", "\\\"", "b">>), Punct(","),
              Tok("string", <<"up">>), Punct(":"), Tok("literal", <<"true">>),
              Punct("}"), Punct(","), Tok("number", <<"7">>), Punct(","),
              Tok("literal", <<"null">>), Punct("]"), Ws("\n")>>
BodyHtml == <<Tok("junk", <<"<html>">>)>>

Response(status, statusText, body) ==
  [status |-> status, statusText |-> statusText, body |-> body]

Responses ==
  {Response(200, "OK", body) : body \in {BodyId, BodyNotFound, BodyList, BodyHtml}}
  \cup {Response(404, "Not Found", body) :
          body \in {BodyId, BodyNotFound, BodyList, BodyHtml}}

ConcurrentResponses ==
  {Response(200, "OK", BodyId), Response(200, "OK", BodyHtml),
   Response(404, "Not Found", BodyNotFound)}

Environments ==
  {[COOLIFY_BASE_URL |-> base, COOLIFY_ACCESS_TOKEN |-> Str(<<"token">>)] :
     base \in {Undefined, Str(<<"https://coolify.example", "/">>)}}

-----------------------------------------------------------------------------
(* Specifications *)

Init ==
  /\ env \in Environments
  /\ listing = <<>>
  /\ inv = [i \in Slots |-> Idle]
  /\ nCalls = 0
  /\ nHttp = 0
  /\ nAccepted = 0

\* One invocation at a time, over every shape of arguments.
Next ==
  \/ ListTools
  \/ \E r \in Requests : CallTool(1, r.name, r.args)
  \/ \E response \in Responses : FetchResolve(1, response)
  \/ FetchReject(1)
  \/ ReadBody(1)
  \/ Deliver(1)

Spec == Init /\ [][Next]_vars

\* Up to MaxInFlight invocations interleaved at their suspension points.
NextConc ==
  \/ ListTools
  \/ \E i \in Slots, r \in ConcurrentRequests : CallTool(i, r.name, r.args)
  \/ \E i \in Slots, response \in ConcurrentResponses : FetchResolve(i, response)
  \/ \E i \in Slots : FetchReject(i)
  \/ \E i \in Slots : ReadBody(i)
  \/ \E i \in Slots : Deliver(i)

SpecConc == Init /\ [][NextConc]_vars

-----------------------------------------------------------------------------
(* Properties *)

Started(i) == inv[i].pc # "idle"
Settled(i) == inv[i].pc = "done"
Registered(name) == name \in ToolNames(Tools)
ApiUrl(path) == BaseUrl(env) \o "/api/v1" \o path

\* The failure the catch clause makes of a ZodError.
IsValidationError(error) ==
  /\ error.cls = "Error"
  /\ Len(error.message) > 1
  /\ error.message[1] = Text("Invalid input: ")
  /\ LET issues == ParseJSON(SubSeq(error.message, 2, Len(error.message))) IN
       issues.ok /\ issues.v.t = "array" /\ issues.v.f # <<>>

IsUnknownToolError(error, name) ==
  error.cls = "Error" /\ error.message = <<Text("Unknown tool: " \o name)>>

\* C1: an invocation that names no registered tool fails with an "Unknown
\* tool" error, whatever its arguments, and has issued no HTTP call.
C1_UnknownToolFails ==
  \A i \in Slots :
    Started(i) /\ ~Registered(inv[i].name) =>
      /\ Settled(i)
      /\ inv[i].result.status = "failure"
      /\ inv[i].result.content = <<>>
      /\ IsUnknownToolError(inv[i].result.error, inv[i].name)
      /\ inv[i].fetches = 0
      /\ inv[i].req = NoRequest

C1_Witness ==
  \E i \in Slots :
    /\ Settled(i)
    /\ inv[i].name = "delete-everything"
    /\ inv[i].result.status = "failure"

UuidKeyedTools ==
  {"get-application", "start-application", "stop-application",
   "restart-application", "update-application", "get-logs"}

\* C2: an invocation of a UUID-keyed tool whose uuid is missing or not a
\* string fails with a validation error and has issued no HTTP call.
C2_UuidValidated ==
  \A i \in Slots :
    /\ Started(i)
    /\ inv[i].name \in UuidKeyedTools
    /\ Get(inv[i].args, "uuid").t # "string"
    => /\ Settled(i)
       /\ inv[i].result.status = "failure"
       /\ IsValidationError(inv[i].result.error)
       /\ inv[i].fetches = 0

\* C3: the HTTP calls issued are as many as the invocations that named a
\* registered tool with arguments its schema accepts, one for each of them
\* and none for any other.
C3_OneCallPerAcceptedInvocation ==
  /\ nHttp = nAccepted
  /\ \A i \in Slots :
       Started(i) =>
         inv[i].fetches =
           (IF Registered(inv[i].name) /\ SchemaAccepts(inv[i].name, inv[i].args)
            THEN 1 ELSE 0)

\* Whether the switch has a branch for the name: it does something else than
\* fall through to the default.
HasBranch(name) ==
  \E args \in {Args(<<>>)} :
    ~(Switch(name, args).kind = "throw"
      /\ IsUnknownToolError(Switch(name, args).error, name))

SentNames == {r.name : r \in Requests}

\* C4: the list list-tools returns names no tool twice, and it names exactly
\* the names the switch has a branch for.
C4_ListMatchesDispatch ==
  /\ listing # <<>> =>
       /\ \A a, b \in 1..Len(listing) : listing[a].name = listing[b].name => a = b
       /\ \A name \in SentNames \cup ToolNames(listing) :
            name \in ToolNames(listing) <=> HasBranch(name)
       /\ \A i \in Slots :
            Settled(i) =>
              (inv[i].name \in ToolNames(listing)
                 <=> ~IsUnknownToolError(inv[i].result.error, inv[i].name))

C4_Witness ==
  /\ Len(listing) = 12
  /\ \E i \in Slots : Settled(i) /\ inv[i].name = "get-logs"

\* C5: get-version issues one GET of /version and health-check one GET of
\* /health, and each returns the remote response as its result.
C5_VersionAndHealth ==
  \A i \in Slots :
    Started(i) /\ inv[i].name \in {"get-version", "health-check"} =>
      /\ inv[i].fetches = 1
      /\ inv[i].req.method = "GET"
      /\ inv[i].req.url =
           ApiUrl(IF inv[i].name = "get-version" THEN "/version" ELSE "/health")
      /\ Settled(i) /\ Ok(inv[i].resp) /\ ParseJSON(inv[i].resp.body).ok =>
           inv[i].result.status = "success"

Supplied(v) == v.t # "undefined"
NonEmpty(v) == v.t = "string" /\ v.s # <<>>

\* The query string that holds tag, uuid and force=true, each when asked for.
QueryOf(args, withTag, withUuid, withForce) ==
  SearchParamsToString(
    (IF withTag THEN <<<<"tag", UrlEncode(Get(args, "tag").s)>>>> ELSE <<>>)
    \o (IF withUuid THEN <<<<"uuid", UrlEncode(Get(args, "uuid").s)>>>> ELSE <<>>)
    \o (IF withForce THEN <<<<"force", "true">>>> ELSE <<>>))

DeployInvocation(i) ==
  /\ Started(i)
  /\ inv[i].name = "deploy"
  /\ SchemaAccepts("deploy", inv[i].args)

\* C6 as stated: deploy issues a GET of /deploy whose query string holds tag
\* exactly when tag was supplied, uuid exactly when uuid was supplied and
\* force=true exactly when force is true.
C6_Original ==
  \A i \in Slots :
    DeployInvocation(i) =>
      /\ inv[i].fetches = 1
      /\ inv[i].req.method = "GET"
      /\ inv[i].req.url =
           ApiUrl("/deploy?" \o QueryOf(inv[i].args,
                                        Supplied(Get(inv[i].args, "tag")),
                                        Supplied(Get(inv[i].args, "uuid")),
                                        Get(inv[i].args, "force") = Bool(TRUE)))

\* C6 as amended: deploy issues a GET of /deploy whose query string holds tag
\* exactly when a non-empty tag was supplied, uuid exactly when a non-empty
\* uuid was supplied and force=true exactly when force is true; a parameter
\* never appears with an empty value.
C6_DeployQuery ==
  \A i \in Slots :
    DeployInvocation(i) =>
      /\ inv[i].fetches = 1
      /\ inv[i].req.method = "GET"
      /\ ~inv[i].req.hasBody
      /\ inv[i].req.url =
           ApiUrl("/deploy?" \o QueryOf(inv[i].args,
                                        NonEmpty(Get(inv[i].args, "tag")),
                                        NonEmpty(Get(inv[i].args, "uuid")),
                                        Get(inv[i].args, "force") = Bool(TRUE)))

C6_Witness ==
  \E i \in Slots :
    /\ DeployInvocation(i)
    /\ Get(inv[i].args, "tag") = Str(<<>>)
    /\ Get(inv[i].args, "force") = Bool(TRUE)
    /\ inv[i].req.url = ApiUrl("/deploy?force=true")

\* C7: when the remote API answers with a status that is not 2xx, the
\* invocation fails without a content block, and the error's message is a
\* JSON object: status is the status code, error names the code and the
\* reason phrase, details is the parsed response body, or {} when the body
\* is not JSON.
C7_RemoteError ==
  \A i \in Slots :
    Settled(i) /\ inv[i].resp # NoResponse /\ ~Ok(inv[i].resp) =>
      /\ inv[i].result.status = "failure"
      /\ inv[i].result.content = <<>>
      /\ LET message == ParseJSON(inv[i].result.error.message)
             body == ParseJSON(inv[i].resp.body)
         IN /\ message.ok
            /\ message.v.t = "object"
            /\ Get(message.v, "status") = Num(inv[i].resp.status)
            /\ Get(message.v, "error") =
                 Str(<<"Coolify API error: " \o ToString(inv[i].resp.status)
                       \o " " \o inv[i].resp.statusText>>)
            /\ Get(message.v, "details") = (IF body.ok THEN body.v ELSE Obj(<<>>))
            /\ inv[i].resp.body = BodyNotFound =>
                 Get(Get(message.v, "details"), "message") = Str(<<"not found">>)

C7_Witness ==
  \E i \in Slots :
    /\ Settled(i)
    /\ inv[i].resp = Response(404, "Not Found", BodyNotFound)
    /\ inv[i].result.status = "failure"

\* C8: get-logs with type "deployment" issues one GET of /deployments/{uuid}
\* whatever lines holds; with type "application" it issues one GET of
\* /applications/{uuid}/logs?lines={n}, n the lines supplied, 100 when none is.
C8_GetLogsEndpoint ==
  \A i \in Slots :
    /\ Started(i)
    /\ inv[i].name = "get-logs"
    /\ Get(inv[i].args, "uuid").t = "string"
    => LET uuid == JoinChunks(Get(inv[i].args, "uuid").s)
           type == Get(inv[i].args, "type")
           lines == Get(inv[i].args, "lines")
       IN /\ type = Str(<<"deployment">>) =>
               /\ inv[i].fetches = 1
               /\ inv[i].req.method = "GET"
               /\ inv[i].req.url = ApiUrl("/deployments/" \o uuid)
          /\ type = Str(<<"application">>) =>
               /\ inv[i].fetches = 1
               /\ inv[i].req.method = "GET"
               /\ inv[i].req.url =
                    ApiUrl("/applications/" \o uuid \o "/logs?lines="
                           \o (IF Supplied(lines) THEN TemplateText(lines)
                               ELSE "100"))

C8_Witness ==
  \E i \in Slots :
    /\ Started(i)
    /\ inv[i].name = "get-logs"
    /\ Get(inv[i].args, "type") = Str(<<"deployment">>)
    /\ Get(inv[i].args, "lines") = Num(50)
    /\ inv[i].req.url = ApiUrl("/deployments/u1")

\* C9: an invocation of a registered tool whose arguments the advertised
\* schema rejects fails with a validation error that lists the violations,
\* and has issued no HTTP call.
C9_SchemaEnforced ==
  \A i \in Slots :
    /\ Started(i)
    /\ Registered(inv[i].name)
    /\ ~SchemaAccepts(inv[i].name, inv[i].args)
    => /\ Settled(i)
       /\ inv[i].result.status = "failure"
       /\ IsValidationError(inv[i].result.error)
       /\ inv[i].fetches = 0

\* Whether the invocation in slot i ended in one of the two outcomes.
WholeOutcome(i) ==
  \/ /\ inv[i].result.status = "success"
     /\ Len(inv[i].result.content) = 1
     /\ inv[i].result.content[1].type = "text"
     /\ inv[i].result.error = NoError
     /\ inv[i].fetches = 1
     /\ Ok(inv[i].resp)
     /\ ParseJSON(inv[i].resp.body).ok
     /\ ParseJSON(inv[i].result.content[1].text) = ParseJSON(inv[i].resp.body)
  \/ /\ inv[i].result.status = "failure"
     /\ inv[i].result.content = <<>>
     /\ inv[i].result.error # NoError

\* What an invocation is given: its request and the remote's answer to it.
Given(i) == <<inv[i].name, inv[i].args, inv[i].fetches, inv[i].resp>>

\* C10: under any interleaving each invocation ends either in success, with
\* one text block that parses back to the body of the response to its own
\* HTTP call, or in failure without a content block; invocations given the
\* same request and the same answer end alike whatever ran beside them; and
\* a step of one invocation changes no other invocation and never the
\* configuration.
C10_Independent ==
  /\ [](\A i \in Slots : Settled(i) => WholeOutcome(i))
  /\ [](\A i, j \in Slots :
          Settled(i) /\ Settled(j) /\ Given(i) = Given(j) =>
            inv[i].result = inv[j].result)
  /\ [][/\ env' = env
        /\ \A i, j \in Slots : i # j /\ inv[i]' # inv[i] => inv[j]' = inv[j]]_vars

C10_Witness ==
  /\ inv[1].result.status = "success"
  /\ inv[1].resp = Response(200, "OK", BodyId)
  /\ ParseJSON(inv[1].result.content[1].text).v = Obj(<<Member("id", Str(<<"abc">>))>>)
  /\ inv[2].resp = Response(404, "Not Found", BodyNotFound)
  /\ inv[2].result.status = "failure"

====
